---- MODULE Spec2Model ----
(***************************************************************************)
(* Model of the celebration-video generators                               *)
(*   generate_celebration_videos.py         (variant "celebration")        *)
(*   generate_better_celebration_videos.py  (variant "dramatic")           *)
(* One process runs one of the two scripts, either through main() or by    *)
(* one direct call of the job function.  Floating-point values are kept in *)
(* fixed point, the process-global random generator is a deterministic     *)
(* state machine over a small state space.                                 *)
(***************************************************************************)
EXTENDS Integers, Sequences, FiniteSets, TLC

VARIABLES
    variant,         \* which script runs
    entry,           \* "main": the batch driver, "call": one direct call
    arg,             \* the rarity passed by a direct call
    encoderPresent,  \* whether the ffmpeg binary is installed
    rng0,            \* state of the global generator at process start
    rng,             \* state of the global generator (module random)
    pc,              \* position of the process
    idx,             \* main(): 1-based position in rarities
    rarity,          \* parameter of the running job
    profile,         \* the settings chosen by the if/elif/else
    particles,       \* per rarity: the simulated particles, in order
    filters,         \* per rarity: the filter list, in order
    final_layer,     \* per rarity: the label handed to -map
    spawned,         \* rarities for which subprocess.run was called, in order
    raw,             \* per rarity: what the encoder invocation did
    success,         \* per rarity: what the job function returned
    printed,         \* what was printed, in order
    mainRet,         \* return value of main()
    exitCode         \* exit code of the process, -1 while it runs

\* send_metal_detect_emails.py, a script of its own
VARIABLES
    mailPc,          \* position of send_emails()
    recipients,      \* the local list of send_emails()
    login,           \* how smtp.login ended, "none" before it
    pos,             \* for recipient in recipients: 1-based position
    attempts,        \* the messages handed to smtp.send_message, in order
    sent,            \* number of "Email sent to" lines printed
    failed,          \* number of "Failed to send email to" lines printed
    lastPrint,       \* the line printed last
    raised           \* the exception that left send_emails(), "none" if none

mailvars == <<mailPc, recipients, login, pos, attempts, sent, failed,
              lastPrint, raised>>

vars == <<variant, entry, arg, encoderPresent, rng0, rng, pc, idx, rarity,
          profile, particles, filters, final_layer, spawned, raw, success,
          printed, mainRet, exitCode, mailvars>>

-----------------------------------------------------------------------------
(* Bounds of the model *)

\* the global generator has RngMod states
RngMod == 64
\* the generator starts in one of the states 0..MaxRng0
MaxRng0 == 2

-----------------------------------------------------------------------------
(* Program constants *)

width == 720
height == 1280
fps == 30
center_x == width \div 2
center_y == height \div 3
SEED == 42

Variants == {"celebration", "dramatic"}
\* the tiers in another order
rarities_reordered == <<"uncommon", "common", "rare">>

rarities == <<"common", "uncommon", "rare">>
Tiers == {"common", "uncommon", "rare"}
\* what a caller may pass: a tier, or a name that is none of them
AllRarities == Tiers \cup {"epic"}

\* duration in tenths of a second: 1.5 and 2.0
duration(v) == IF v = "celebration" THEN 15 ELSE 20

\* timeout of subprocess.run, seconds
timeout(v) == IF v = "celebration" THEN 60 ELSE 120

-----------------------------------------------------------------------------
(* The rarity settings: the if / elif / else at the top of the job function *)

Profile(v, r) ==
    IF v = "celebration" THEN
        IF r = "common" THEN
            [bg_color |-> "transparent", particle_count |-> 30,
             particle_colors |-> <<"#32CD32", "#90EE90">>,
             effects |-> {}, particle_size |-> 0, speed_multiplier |-> 0]
        ELSE IF r = "uncommon" THEN
            [bg_color |-> "transparent", particle_count |-> 60,
             particle_colors |-> <<"#4A90E2", "#00CED1">>,
             effects |-> {"burst_rays"}, particle_size |-> 0, speed_multiplier |-> 0]
        ELSE
            [bg_color |-> "transparent", particle_count |-> 100,
             particle_colors |-> <<"#FF6B35", "#FFD700">>,
             effects |-> {"burst_rays", "shockwave"}, particle_size |-> 0,
             speed_multiplier |-> 0]
    ELSE
        \* speed_multiplier in tenths: 1.0, 1.5, 2.0
        IF r = "common" THEN
            [bg_color |-> "#1a1a2e", particle_count |-> 50,
             particle_colors |-> <<"#32CD32", "#90EE90">>,
             effects |-> {}, particle_size |-> 12, speed_multiplier |-> 10]
        ELSE IF r = "uncommon" THEN
            [bg_color |-> "#1a1a2e", particle_count |-> 100,
             particle_colors |-> <<"#4A90E2", "#00CED1">>,
             effects |-> {}, particle_size |-> 16, speed_multiplier |-> 15]
        ELSE
            [bg_color |-> "#1a1a2e", particle_count |-> 150,
             particle_colors |-> <<"#FF6B35", "#FFD700">>,
             effects |-> {}, particle_size |-> 20, speed_multiplier |-> 20]

NoProfile == [bg_color |-> "", particle_count |-> 0, particle_colors |-> <<>>,
              effects |-> {}, particle_size |-> 0, speed_multiplier |-> 0]

-----------------------------------------------------------------------------
(* The process-global random generator *)

\* random.seed(n): the state depends on n only
RngSeed(n) == n % RngMod

\* one draw advances the state
RngNext(s) == (s * 21 + 11) % RngMod

\* In the definitions below a value that is used more than once is bound by
\* `x \in {e}`, which computes e once, before its uses.

RECURSIVE Draws(_, _)
\* the n states the generator goes through in n draws from state s, in order
Draws(s, n) ==
    IF n <= 0 THEN <<>>
    ELSE IF n = 1 THEN <<RngNext(s)>>
    ELSE CHOOSE d \in {a \o Draws(a[Len(a)], (n + 1) \div 2) :
                         a \in {Draws(s, n \div 2)}} : TRUE

\* the state in which iteration number k of a loop finds the generator, when
\* the loop started in state s and each iteration draws `per` times
StateBefore(s, draws, k, per) == IF k = 1 THEN s ELSE draws[per * (k - 1)]

\* random.uniform(0, hi) of an integer-scaled range: floor(hi * u), u = s/RngMod
Uniform(s, hi) == (hi * s) \div RngMod

\* random.randint(lo, hi), both ends included
RandInt(s, lo, hi) == lo + ((hi - lo + 1) * s) \div RngMod

\* 1000 * cos of the direction k * 2*pi / 16; angles are kept as the index k
CosTable == <<1000, 924, 707, 383, 0, -383, -707, -924,
              -1000, -924, -707, -383, 0, 383, 707, 924>>

NumAngles == Len(CosTable)

Cos1000(k) == CosTable[(k % NumAngles) + 1]

\* sin(a) = cos(a - pi/2)
Sin1000(k) == Cos1000(k + NumAngles - NumAngles \div 4)

\* x * m / 1000 rounded toward minus infinity
Scale(m, x) == (m * x) \div 1000

\* no clamping
Clamp_none(hi, x) == x

\* max(0, min(hi, x))
Clamp(hi, x) == IF x < 0 THEN 0 ELSE IF x > hi THEN hi ELSE x

\* a range that stops one short
Range_short(n) == [k \in 1..(n - 1) |-> k - 1]

\* range(n) of Python: 0, 1, ..., n-1
Range(n) == [k \in 1..n |-> k - 1]

-----------------------------------------------------------------------------
(* Filters.  One record per entry of the list `filters`; a label is a pair *)
(* <<name, index>>, a position expression is <<start, end, easing>>.       *)

NoLabel == <<"none", 0>>
NoExpr == <<0, 0, "none">>

\* color=c={c}:s={w}x{h}:d={duration}:r={fps}[out]
ColorFilter(c, w, h, d, out) ==
    [op |-> "color", c |-> c, w |-> w, h |-> h, d |-> d, r |-> fps,
     base |-> NoLabel, top |-> NoLabel, x |-> NoExpr, y |-> NoExpr,
     alpha |-> "none", format |-> "none", out |-> out]

\* [base][top]overlay=x='..':y='..'[:alpha='..']:eval=frame[:format=auto][out]
OverlayFilter(base, top, x, y, alpha, format, out) ==
    [op |-> "overlay", c |-> "none", w |-> 0, h |-> 0, d |-> 0, r |-> 0,
     base |-> base, top |-> top, x |-> x, y |-> y,
     alpha |-> alpha, format |-> format, out |-> out]

RECURSIVE Flatten(_, _, _)
\* the concatenation of the lists ls[lo], ..., ls[hi], in order
Flatten(ls, lo, hi) ==
    IF lo > hi THEN <<>>
    ELSE IF lo = hi THEN ls[lo]
    ELSE CHOOSE fs \in {Flatten(ls, lo, mid) \o Flatten(ls, mid + 1, hi) :
                          mid \in {(lo + hi) \div 2}} : TRUE

-----------------------------------------------------------------------------
(* generate_celebration_videos.py: simulation and compilation              *)

\* the generator left as the process found it
Seeded_unseeded(s) == s

\* random.seed(42) at the top of the simulation
Seeded(s) == RngSeed(SEED)

\* a palette of which only the first color is used
PaletteColor_first(colors, i) == colors[1]

\* particle_colors[i % len(particle_colors)]
PaletteColor(colors, i) == colors[(i % Len(colors)) + 1]

\* one iteration of the particle loop: the three draws and the particle
CelebrationParticle(p, i, s) ==
    LET s1 == RngNext(s)
        angle == Uniform(s1, NumAngles)
        s2 == RngNext(s1)
        velocity == Uniform(s2, 1000)
        max_radius == Scale(432, velocity)
        end_x == center_x + Scale(Cos1000(angle), max_radius)
        end_y == center_y + Scale(Sin1000(angle), max_radius)
        s3 == RngNext(s2)
        size == 2000 + Uniform(s3, 3000)
        color == PaletteColor(p.particle_colors, i)
    IN [rng |-> s3,
        particle |-> [angle |-> angle, radius |-> max_radius,
                      start_x |-> center_x, start_y |-> center_y,
                      end_x |-> end_x, end_y |-> end_y,
                      size |-> size \div 1000, color |-> color]]

\* every particle laid over the background instead of the layer before it
CelebrationParticleFilters_onbg(v, i, q) ==
    << ColorFilter(q.color, q.size, q.size, duration(v), <<"p", i>>),
       OverlayFilter(<<"bg", 0>>, <<"p", i>>,
                     <<center_x, q.end_x, "linear">>,
                     <<center_y, q.end_y, "linear">>,
                     "none", "auto", <<"tmp", i>>) >>

\* the two filters an iteration appends; alpha_expr is computed and not used
CelebrationParticleFilters(v, i, q) ==
    LET input_layer == IF i = 0 THEN <<"bg", 0>> ELSE <<"tmp", i - 1>>
    IN << ColorFilter(q.color, q.size, q.size, duration(v), <<"p", i>>),
          OverlayFilter(input_layer, <<"p", i>>,
                        <<center_x, q.end_x, "linear">>,
                        <<center_y, q.end_y, "linear">>,
                        "none", "auto", <<"tmp", i>>) >>

\* for i in range(particle_count): the particles, in order of i; iteration
\* number k starts from the generator state its predecessors left
CelebrationParticles(p, is, s) ==
    CHOOSE ps \in {[k \in DOMAIN is |->
                      CelebrationParticle(p, is[k],
                                          StateBefore(s, draws, k, 3)).particle] :
                   draws \in {Draws(s, 3 * Len(is))}} : TRUE

\* for i in range(particle_count): the filters appended, in order of i
CelebrationFilters(v, is, ps) ==
    CHOOSE fs \in {Flatten(ls, 1, Len(is)) :
                   ls \in {[k \in DOMAIN is |->
                              CelebrationParticleFilters(v, is[k], ps[k])]}} : TRUE

\* the two ray counts exchanged
RayCount_swapped(r) == IF r = "rare" THEN 32 ELSE 48

\* ray_count = 48 if rarity == 'rare' else 32
RayCount(r) == IF r = "rare" THEN 48 ELSE 32

\* the two filters of burst ray `ray`, on top of `final`
RayFilters(v, ray, ray_count, final) ==
    LET angle == (ray * NumAngles) \div ray_count
        max_length == 108
        end_x == center_x + Scale(Cos1000(angle), max_length)
        end_y == center_y + Scale(Sin1000(angle), max_length)
    IN << ColorFilter("#FFD700", 2, 20, duration(v), <<"ray", ray>>),
          OverlayFilter(final, <<"ray", ray>>,
                        <<center_x, end_x, "linear">>,
                        <<center_y, end_y, "linear">>,
                        "none", "auto", <<"ray_tmp", ray>>) >>

\* a ray loop that never updates final_layer
RayLoop_stale(v, rs, n, final) ==
    CHOOSE fs \in {Flatten(ls, 1, Len(rs)) :
                   ls \in {[k \in DOMAIN rs |-> RayFilters(v, rs[k], n, final)]}} : TRUE

\* for ray in range(ray_count): the filters appended; a ray is laid over
\* final_layer, which the iteration before it set to its own output
RayLoop(v, rs, n, final) ==
    CHOOSE fs \in {Flatten(ls, 1, Len(rs)) :
                   ls \in {[k \in DOMAIN rs |->
                              RayFilters(v, rs[k], n,
                                         IF k = 1 THEN final
                                         ELSE <<"ray_tmp", rs[k - 1]>>)]}} : TRUE

\* effects in which the shockwave adds a layer on top of the rays
EffectFilters_shockwave(v, r, p, final) ==
    LET rays == IF "burst_rays" \in p.effects
                THEN RayLoop(v, Range(RayCount(r)), RayCount(r), final)
                ELSE <<>>
    IN IF "shockwave" \in p.effects
       THEN rays \o << ColorFilter("#FFFFFF", 20, 20, duration(v), <<"shock", 0>>),
                       OverlayFilter(<<"ray_tmp", RayCount(r) - 1>>, <<"shock", 0>>,
                                     <<center_x, center_x, "linear">>,
                                     <<center_y, center_y, "linear">>,
                                     "none", "auto", <<"shock_tmp", 0>>) >>
       ELSE rays

\* the filters of the enabled effects: only 'burst_rays' is ever looked up
EffectFilters(v, r, p, final) ==
    IF "burst_rays" \in p.effects
    THEN RayLoop(v, Range(RayCount(r)), RayCount(r), final)
    ELSE <<>>

\* the body of create_celebration_video up to the command
CelebrationCompile(v, r, p, s) ==
    LET bg == ColorFilter("black@0.0", width, height, duration(v), <<"bg", 0>>)
        is == Range(p.particle_count)
        final == IF p.particle_count > 0 THEN <<"tmp", p.particle_count - 1>>
                 ELSE <<"bg", 0>>
        rs == IF "burst_rays" \in p.effects THEN Range(RayCount(r)) ELSE <<>>
    IN CHOOSE job \in
          {[rng |-> StateBefore(Seeded(s), Draws(Seeded(s), 3 * Len(is)),
                                Len(is) + 1, 3),
            particles |-> ps,
            filters |-> <<bg>> \o CelebrationFilters(v, is, ps)
                             \o EffectFilters(v, r, p, final),
            final_layer |-> IF rs = <<>> THEN final
                            ELSE <<"ray_tmp", rs[Len(rs)]>>] :
           ps \in {CelebrationParticles(p, is, Seeded(s))}} : TRUE

-----------------------------------------------------------------------------
(* generate_better_celebration_videos.py: simulation and compilation       *)

\* one iteration of the particle loop: the five draws and the particle
DramaticParticle(p, i, s) ==
    LET s1 == RngNext(s)
        start_x == center_x + RandInt(s1, -100, 100)
        s2 == RngNext(s1)
        start_y == center_y + RandInt(s2, -50, 50)
        s3 == RngNext(s2)
        angle == Uniform(s3, NumAngles)
        s4 == RngNext(s3)
        distance == ((200 + Uniform(s4, 200)) * p.speed_multiplier) \div 10
        end_x == start_x + Scale(Cos1000(angle), distance)
        end_y == start_y + Scale(Sin1000(angle), distance)
        color == IF i % 3 # 0 THEN p.particle_colors[1] ELSE p.particle_colors[2]
        s5 == RngNext(s4)
        size == p.particle_size + RandInt(s5, -4, 4)
    IN [rng |-> s5,
        particle |-> [angle |-> angle, radius |-> distance,
                      start_x |-> start_x, start_y |-> start_y,
                      end_x |-> Clamp(width, end_x), end_y |-> Clamp(height, end_y),
                      size |-> size, color |-> color]]

\* for i in range(particle_count): particles.append(...), in order of i
DramaticParticles(p, is, s) ==
    CHOOSE ps \in {[k \in DOMAIN is |->
                      DramaticParticle(p, is[k],
                                       StateBefore(s, draws, k, 5)).particle] :
                   draws \in {Draws(s, 5 * Len(is))}} : TRUE

\* the two filters of particle i in the enumerate loop
DramaticParticleFilters(v, i, q) ==
    LET input_name == IF i = 0 THEN <<"bg", 0>> ELSE <<"tmp", i - 1>>
    IN << ColorFilter(q.color, q.size, q.size, duration(v), <<"p", i>>),
          OverlayFilter(input_name, <<"p", i>>,
                        <<q.start_x, q.end_x, "easeout">>,
                        <<q.start_y, q.end_y, "easeout">>,
                        "1-t/duration", "none", <<"tmp", i>>) >>

\* for i, particle in enumerate(particles): the filters appended
DramaticFilters(v, ps) ==
    CHOOSE fs \in {Flatten(ls, 1, Len(ps)) :
                   ls \in {[k \in DOMAIN ps |->
                              DramaticParticleFilters(v, k - 1, ps[k])]}} : TRUE

\* the body of create_dramatic_celebration_video up to the command
DramaticCompile(v, r, p, s) ==
    LET is == Range(p.particle_count)
        bg == ColorFilter(p.bg_color, width, height, duration(v), <<"bg", 0>>)
    IN CHOOSE job \in
          {[rng |-> StateBefore(s, Draws(s, 5 * Len(is)), Len(is) + 1, 5),
            particles |-> ps,
            filters |-> <<bg>> \o DramaticFilters(v, ps),
            final_layer |-> IF ps # <<>> THEN <<"tmp", Len(ps) - 1>>
                            ELSE <<"bg", 0>>] :
           ps \in {DramaticParticles(p, is, s)}} : TRUE

\* simulation and compilation of one job of either script
Compile(v, r, p, s) ==
    IF v = "celebration" THEN CelebrationCompile(v, r, p, s)
    ELSE DramaticCompile(v, r, p, s)

-----------------------------------------------------------------------------
(* The encoder invocation: the try / except around subprocess.run          *)

\* what subprocess.run can do when the binary exists
EncoderOutcomes == {"exit0", "exit1", "timeout"}

\* a started encoder is on its way to an exit, or hangs
EncoderStates == {"running", "hung"}

\* subprocess.run without a timeout: it returns only when the encoder exits
WaitOutcomes_notimeout(state, limit) ==
    {o \in EncoderOutcomes : o # "timeout" /\ state # "hung"}

\* how subprocess.run(..., timeout=limit) can return for an encoder in
\* `state`: by the exit of the encoder, or by TimeoutExpired after `limit`
\* seconds, which is the only way out when the encoder hangs
WaitOutcomes(state, limit) ==
    {o \in EncoderOutcomes :
        /\ o = "timeout" => limit > 0
        /\ state = "hung" => o = "timeout"}

\* the return value and the message of the job for an encoder outcome;
\* fileExists: whether os.path.getsize finds the output file
JobReturn(v, outcome, fileExists) ==
    IF outcome = "exit0" THEN
        IF v = "dramatic" /\ ~fileExists
        THEN [ret |-> "False", msg |-> "FFmpeg not found"]
        ELSE [ret |-> "True", msg |-> "Successfully created"]
    ELSE IF outcome = "exit1" THEN [ret |-> "False", msg |-> "FFmpeg error"]
    ELSE IF outcome = "timeout" THEN [ret |-> "False", msg |-> "Timeout generating"]
    ELSE [ret |-> "False", msg |-> "FFmpeg not found"]

\* a driver that goes on to the next rarity whatever the job returned
MainAfterJob_continue(ok, i) ==
    [pc |-> "loop", idx |-> i + 1, ret |-> "none",
     out |-> IF ok # "True" THEN << <<"Failed to create", rarities[i]>> >> ELSE <<>>]

\* a driver that runs the job of a rarity again when it returned False
MainAfterJob_retry(ok, i) ==
    IF ok # "True"
    THEN [pc |-> "loop", idx |-> i, ret |-> "none",
          out |-> << <<"Failed to create", rarities[i]>> >>]
    ELSE [pc |-> "loop", idx |-> i + 1, ret |-> "none", out |-> <<>>]

\* main(): what follows the return of a job at position i
MainAfterJob(ok, i) ==
    IF ok # "True"
    THEN [pc |-> "exit", idx |-> i, ret |-> "False",
          out |-> << <<"Failed to create", rarities[i]>> >>]
    ELSE [pc |-> "loop", idx |-> i + 1, ret |-> "none", out |-> <<>>]

\* the exit code of `if __name__ == "__main__": main()`: the value is dropped
ScriptExitCode(ret) == 0

-----------------------------------------------------------------------------
(* State machine *)

PerRarity(x) == [r \in AllRarities |-> x]

\* send_emails() has not been called
InitMail ==
    /\ mailPc = "start"
    /\ recipients = <<>>
    /\ login = "none"
    /\ pos = 0
    /\ attempts = <<>>
    /\ sent = 0
    /\ failed = 0
    /\ lastPrint = <<"none">>
    /\ raised = "none"

Init ==
    /\ InitMail
    /\ variant \in Variants
    /\ entry \in {"main", "call"}
    /\ arg \in IF entry = "call" THEN AllRarities ELSE {"none"}
    /\ encoderPresent \in BOOLEAN
    /\ rng0 \in 0..MaxRng0
    /\ rng = rng0
    /\ pc = "start"
    /\ idx = 0
    /\ rarity = "none"
    /\ profile = NoProfile
    /\ particles = PerRarity(<<>>)
    /\ filters = PerRarity(<<>>)
    /\ final_layer = PerRarity(NoLabel)
    /\ spawned = <<>>
    /\ raw = PerRarity("none")
    /\ success = PerRarity("none")
    /\ printed = <<>>
    /\ mainRet = "none"
    /\ exitCode = -1

env == <<variant, entry, arg, encoderPresent, rng0>>

\* what send_metal_detect_emails.py leaves alone
videovars == <<env, rng, pc, idx, rarity, profile, particles, filters,
               final_layer, spawned, raw, success, printed, mainRet, exitCode>>

\* main(): os.makedirs and the start of the loop
MainStart ==
    /\ pc = "start" /\ entry = "main"
    /\ pc' = "loop" /\ idx' = 1
    /\ UNCHANGED <<mailvars, env, rng, rarity, profile, particles, filters, final_layer,
                   spawned, raw, success, printed, mainRet, exitCode>>

\* a caller other than main() calls the job function once
DirectCall ==
    /\ pc = "start" /\ entry = "call"
    /\ pc' = "resolve" /\ rarity' = arg
    /\ UNCHANGED <<mailvars, env, rng, idx, profile, particles, filters, final_layer,
                   spawned, raw, success, printed, mainRet, exitCode>>

\* main(): for rarity in rarities: the call of the job function
MainLoop ==
    /\ pc = "loop" /\ idx <= Len(rarities)
    /\ pc' = "resolve" /\ rarity' = rarities[idx]
    /\ UNCHANGED <<mailvars, env, rng, idx, profile, particles, filters, final_layer,
                   spawned, raw, success, printed, mainRet, exitCode>>

\* main(): the loop is over, every job returned True
MainAllDone ==
    /\ pc = "loop" /\ idx > Len(rarities)
    /\ printed' = Append(printed, <<"All celebration videos generated", "">>)
    /\ mainRet' = "True"
    /\ pc' = "exit"
    /\ UNCHANGED <<mailvars, env, rng, idx, rarity, profile, particles, filters, final_layer,
                   spawned, raw, success, exitCode>>

\* job: the rarity-specific settings
ResolveProfile ==
    /\ pc = "resolve"
    /\ profile' = Profile(variant, rarity)
    /\ pc' = "simulate"
    /\ UNCHANGED <<mailvars, env, rng, idx, rarity, particles, filters, final_layer,
                   spawned, raw, success, printed, mainRet, exitCode>>

\* job: particles, rays, filter list, command, the "Generating" message
SimulateAndCompile ==
    /\ pc = "simulate"
    /\ \E a \in {Compile(variant, rarity, profile, rng)} :
          /\ rng' = a.rng
          /\ particles' = [particles EXCEPT ![rarity] = a.particles]
          /\ filters' = [filters EXCEPT ![rarity] = a.filters]
          /\ final_layer' = [final_layer EXCEPT ![rarity] = a.final_layer]
    /\ printed' = Append(printed, <<"Generating", rarity>>)
    /\ pc' = "spawn"
    /\ UNCHANGED <<mailvars, env, idx, rarity, profile, spawned, raw, success, mainRet, exitCode>>

\* job: subprocess.run starts the encoder
SpawnEncoder ==
    /\ pc = "spawn" /\ encoderPresent
    /\ spawned' = Append(spawned, rarity)
    /\ \E state \in EncoderStates : raw' = [raw EXCEPT ![rarity] = state]
    /\ pc' = "encoding"
    /\ UNCHANGED <<mailvars, env, rng, idx, rarity, profile, particles, filters, final_layer,
                   success, printed, mainRet, exitCode>>

\* job: subprocess.run raises FileNotFoundError, the job returns False
SpawnNotFound ==
    /\ pc = "spawn" /\ ~encoderPresent
    /\ spawned' = Append(spawned, rarity)
    /\ raw' = [raw EXCEPT ![rarity] = "notfound"]
    /\ LET j == JobReturn(variant, "notfound", FALSE)
       IN /\ success' = [success EXCEPT ![rarity] = j.ret]
          /\ printed' = Append(printed, <<j.msg, rarity>>)
    /\ pc' = "returned"
    /\ UNCHANGED <<mailvars, env, rng, idx, rarity, profile, particles, filters, final_layer,
                   mainRet, exitCode>>

\* job: the encoder exits or is cut off by the timeout, the job returns
EncoderEnds ==
    /\ pc = "encoding"
    /\ \E outcome \in WaitOutcomes(raw[rarity], timeout(variant)),
          fileExists \in BOOLEAN :
          /\ (variant = "celebration" \/ outcome # "exit0") => fileExists
          /\ raw' = [raw EXCEPT ![rarity] = outcome]
          /\ LET j == JobReturn(variant, outcome, fileExists)
             IN /\ success' = [success EXCEPT ![rarity] = j.ret]
                /\ printed' = Append(printed, <<j.msg, rarity>>)
    /\ pc' = "returned"
    /\ UNCHANGED <<mailvars, env, rng, idx, rarity, profile, particles, filters, final_layer,
                   spawned, mainRet, exitCode>>

\* main(): if not success: print, return False; else the next rarity
MainCheck ==
    /\ pc = "returned" /\ entry = "main"
    /\ LET m == MainAfterJob(success[rarity], idx)
       IN /\ pc' = m.pc
          /\ idx' = m.idx
          /\ mainRet' = m.ret
          /\ printed' = printed \o m.out
    /\ UNCHANGED <<mailvars, env, rng, rarity, profile, particles, filters, final_layer,
                   spawned, raw, success, exitCode>>

\* the direct caller gets the return value
CallReturn ==
    /\ pc = "returned" /\ entry = "call"
    /\ pc' = "done"
    /\ UNCHANGED <<mailvars, env, rng, idx, rarity, profile, particles, filters, final_layer,
                   spawned, raw, success, printed, mainRet, exitCode>>

\* the script ends after main() returned
ProcessExit ==
    /\ pc = "exit"
    /\ exitCode' = ScriptExitCode(mainRet)
    /\ pc' = "done"
    /\ UNCHANGED <<mailvars, env, rng, idx, rarity, profile, particles, filters, final_layer,
                   spawned, raw, success, printed, mainRet>>

Next ==
    \/ MainStart
    \/ DirectCall
    \/ MainLoop
    \/ MainAllDone
    \/ ResolveProfile
    \/ SimulateAndCompile
    \/ SpawnEncoder
    \/ SpawnNotFound
    \/ EncoderEnds
    \/ MainCheck
    \/ CallReturn
    \/ ProcessExit

Spec == Init /\ [][Next]_vars

\* the process is scheduled until it ends, and subprocess.run returns
FairSpec == Spec /\ WF_vars(Next)

TypeOK ==
    /\ pc \in {"start", "loop", "resolve", "simulate", "spawn", "encoding",
               "returned", "exit", "done"}
    /\ rng \in 0..(RngMod - 1)
    /\ exitCode \in {-1, 0, 1}
    /\ mailPc \in {"start", "connect", "login", "loop", "closed", "raised"}
    /\ pos \in 0..(Len(recipients) + 1)

-----------------------------------------------------------------------------
(* send_metal_detect_emails.py                                             *)

\* the configured sender address
GMAIL_ADDRESS == "GMAIL_ADDRESS"

Recipient(name, email) == [name |-> name, email |-> email]

\* build_recipients(): the list, in the order of the source
build_recipients ==
    << Recipient("Benjamin Rush State Park", "neshaminysp@pa.gov"),
       Recipient("Evansburg State Park", "evansburgsp@pa.gov"),
       Recipient("Fort Washington State Park", "fortwashingtonsp@pa.gov"),
       Recipient("Ridley Creek State Park", "ridleycreeksp@pa.gov"),
       Recipient("Neshaminy State Park", "neshaminysp@pa.gov"),
       Recipient("Marsh Creek State Park", "marshcreeksp@pa.gov"),
       Recipient("Tyler State Park", "tylersp@pa.gov"),
       Recipient("Nockamixon State Park", "nockamixonsp@pa.gov"),
       Recipient("Susquehannock State Park", "SusquehannockStatePark@pa.gov"),
       Recipient("Swatara State Park", "memorialsp@pa.gov"),
       Recipient("Gifford Pinchot State Park", "giffordpinchotsp@pa.gov"),
       Recipient("French Creek State Park", "frenchcreeksp@pa.gov"),
       Recipient("Washington Crossing Historic Park", "washingtoncrossingsp@pa.gov"),
       Recipient("Ralph Stover State Park", "delawarecanalsp@pa.gov"),
       Recipient("Norristown Farm Park", "parkregion4sp@pa.gov"),
       Recipient("Beltzville State Park", "beltzvillesp@pa.gov"),
       Recipient("Locust Lake State Park", "tuscarorasp@pa.gov"),
       Recipient("Tuscarora State Park", "tuscarorasp@pa.gov"),
       Recipient("Hickory Run State Park", "hickoryrunsp@pa.gov"),
       Recipient("Codorus State Park", "codorussp@pa.gov"),
       Recipient("Jacobsburg Environmental Education Center", "jacobsburgsp@pa.gov"),
       Recipient("Lehigh Gorge State Park", "hickoryrunsp@pa.gov"),
       Recipient("Memorial Lake State Park", "memorialsp@pa.gov"),
       Recipient("William Penn State Forest", "FD17@pa.gov"),
       Recipient("Weiser State Forest", "fd18@pa.gov") >>

\* compose_email(to_address, park_name): the headers and the greeting
compose_email(to_address, park_name) ==
    [From |-> GMAIL_ADDRESS,
     To |-> to_address,
     Subject |-> <<"Metal detecting permission request for ", park_name>>,
     body |-> <<"Dear ", park_name, " staff,">>]

\* how smtplib.SMTP_SSL(host, 465) can end
ConnectOutcomes == {"connected", "refused"}

\* how smtp.login can end: it returns, raises SMTPAuthenticationError, or
\* raises another SMTPException
LoginOutcomes == {"ok", "auth_error", "error"}

\* how smtp.send_message can end: it returns or raises an Exception
SendOutcomes == {"sent", "error"}

\* a handler that lets the exception of a failed send leave the loop
AfterSend_raise(outcome) ==
    IF outcome = "error"
    THEN [pc |-> "raised", raised |-> "SMTPException"]
    ELSE [pc |-> "loop", raised |-> "none"]

\* the try / except Exception around send_message: after either outcome the
\* for loop goes on with the next recipient
AfterSend(outcome) == [pc |-> "loop", raised |-> "none"]

\* recipients = build_recipients(); the early return on an empty list
MailStart ==
    /\ mailPc = "start"
    /\ recipients' = build_recipients
    /\ IF recipients' = <<>>
       THEN mailPc' = "closed" /\ lastPrint' = <<"No recipients defined. Exiting.">>
       ELSE mailPc' = "connect" /\ UNCHANGED lastPrint
    /\ UNCHANGED <<videovars, login, pos, attempts, sent, failed, raised>>

\* with smtplib.SMTP_SSL("smtp.gmail.com", 465) as smtp
MailConnect ==
    /\ mailPc = "connect"
    /\ \E o \in ConnectOutcomes :
          IF o = "connected"
          THEN mailPc' = "login" /\ UNCHANGED raised
          ELSE mailPc' = "raised" /\ raised' = "OSError"
    /\ UNCHANGED <<videovars, recipients, login, pos, attempts, sent, failed, lastPrint>>

\* smtp.login(...) in its try / except SMTPAuthenticationError
MailLogin ==
    /\ mailPc = "login"
    /\ \E o \in LoginOutcomes :
          /\ login' = o
          /\ IF o = "ok"
             THEN mailPc' = "loop" /\ pos' = 1 /\ UNCHANGED <<lastPrint, raised>>
             ELSE IF o = "auth_error"
             THEN /\ lastPrint' = <<"Failed to authenticate with Gmail.">>
                  /\ mailPc' = "raised"
                  /\ raised' = "SMTPAuthenticationError"
                  /\ UNCHANGED pos
             ELSE /\ mailPc' = "raised"
                  /\ raised' = "SMTPException"
                  /\ UNCHANGED <<pos, lastPrint>>
    /\ UNCHANGED <<videovars, recipients, attempts, sent, failed>>

\* one iteration of the for loop
MailSend ==
    /\ mailPc = "loop"
    /\ pos <= Len(recipients)
    /\ \E o \in SendOutcomes :
          LET to_addr == recipients[pos].email
              park_name == recipients[pos].name
              msg == compose_email(to_addr, park_name)
              after == AfterSend(o)
          IN /\ attempts' = Append(attempts, msg)
             /\ IF o = "sent"
                THEN /\ sent' = sent + 1
                     /\ lastPrint' = <<"Email sent to", park_name, to_addr>>
                     /\ UNCHANGED failed
                ELSE /\ failed' = failed + 1
                     /\ lastPrint' = IF after.pc = "loop"
                                     THEN <<"Failed to send email to", park_name, to_addr>>
                                     ELSE lastPrint
                     /\ UNCHANGED sent
             /\ mailPc' = after.pc
             /\ raised' = after.raised
             /\ pos' = pos + 1
    /\ UNCHANGED <<videovars, recipients, login>>

\* the end of the for loop and of the with block
MailLoopEnd ==
    /\ mailPc = "loop"
    /\ pos > Len(recipients)
    /\ mailPc' = "closed"
    /\ UNCHANGED <<videovars, recipients, login, pos, attempts, sent, failed,
                    lastPrint, raised>>

\* the process that runs send_metal_detect_emails.py runs no video job
MailNext ==
    \/ MailStart
    \/ MailConnect
    \/ MailLogin
    \/ MailSend
    \/ MailLoopEnd

SpecMail == Init /\ [][MailNext]_vars

-----------------------------------------------------------------------------
(* Properties *)

\* the rarities for which subprocess.run was called
SpawnedSet == {spawned[i] : i \in DOMAIN spawned}

\* how often subprocess.run was called for rarity r
Invocations(r) == Cardinality({i \in DOMAIN spawned : spawned[i] = r})

\* whether the message m was printed for rarity r
Printed(m, r) == \E i \in DOMAIN printed : printed[i] = <<m, r>>

\* the batch driver has run to the end of the script
BatchDone == pc = "done" /\ entry = "main"

\* no job failed for another reason than a non-zero exit or a timeout
JobScopedOnly ==
    \A r \in Tiers : success[r] = "False" => raw[r] \in {"exit1", "timeout"}

\* C1: in a batch run whose only failures are non-zero exits and timeouts,
\* the job of every tier is run and every failure is reported.
C1_FailureDoesNotBlock ==
    (BatchDone /\ JobScopedOnly) =>
        \A r \in Tiers :
            /\ r \in SpawnedSet
            /\ success[r] = "False" => Printed("Failed to create", r)

\* C2: the exit code of a batch run is 0 exactly when all three tiers
\* succeeded, and non-zero when the job of some tier failed.
C2_ExitCodeReflectsTiers ==
    BatchDone => (exitCode = 0 <=> \A r \in Tiers : success[r] = "True")

\* C3: for a rarity that is none of common, uncommon, rare no graph is
\* compiled and no encoder is invoked.
C3_UnsupportedRarityRejected ==
    \A r \in AllRarities \ Tiers : filters[r] = <<>> /\ r \notin SpawnedSet

\* C4: when the encoder binary is absent no tier is reported as succeeded,
\* nothing is invoked after the first not-found outcome, and a batch run
\* ends after its first job with the not-found message and main() = False.
C4_EncoderAbsentAborts ==
    ~encoderPresent =>
        /\ \A r \in AllRarities : success[r] # "True"
        /\ \A i \in DOMAIN spawned :
              raw[spawned[i]] = "notfound" => i = Len(spawned)
        /\ BatchDone =>
              /\ spawned = <<"common">>
              /\ Printed("FFmpeg not found", "common")
              /\ mainRet = "False"

C4_Witness ==
    /\ ~encoderPresent /\ BatchDone
    /\ raw["common"] = "notfound" /\ success["common"] = "False"

\* the ways an encoder invocation fails
FailureOutcomes == {"exit1", "timeout", "notfound"}

\* C5: the value a failed job returns identifies the failure: another
\* failure mode would have returned a different value.
C5_FailureKindsDistinct ==
    \A r \in AllRarities :
        (success[r] = "False" /\ raw[r] \in FailureOutcomes) =>
            \A o \in FailureOutcomes \ {raw[r]} :
                JobReturn(variant, o, TRUE).ret # success[r]

\* C6: a job that returned has succeeded exactly when its encoder exited
\* with code 0, and is then not reported as encoder-not-found.
C6_SuccessIffExitZero ==
    \A r \in AllRarities :
        success[r] # "none" =>
            /\ success[r] = "True" <=> raw[r] = "exit0"
            /\ raw[r] = "exit0" => ~Printed("FFmpeg not found", r)

\* C7: the encoder is invoked at most once for each rarity, whatever the
\* outcomes.
C7_NoRetry == \A r \in AllRarities : Invocations(r) <= 1

C7_Witness ==
    /\ BatchDone /\ raw["common"] = "exit0" /\ raw["uncommon"] = "timeout"
    /\ spawned = <<"common", "uncommon">>

\* the simulation of the running job has just finished
Simulated == pc = "spawn"

\* C8: the particles, the rays and the filter list that create_celebration_video
\* produces for a rarity are those of any other run of it, in whichever
\* state that run finds the generator.
C8_Deterministic ==
    (Simulated /\ variant = "celebration") =>
        \A s \in 0..MaxRng0 :
            LET other == CelebrationCompile(variant, rarity, profile, s)
            IN /\ particles[rarity] = other.particles
               /\ filters[rarity] = other.filters
               /\ final_layer[rarity] = other.final_layer

C8_Witness ==
    /\ Simulated /\ variant = "celebration" /\ rarity = "rare" /\ entry = "main"
    /\ Len(particles["rare"]) = 100 /\ rng0 # RngSeed(SEED)

\* C9: the particles and the filter list of a job are those the job produces
\* when it is the first of its process.
C9_PositionIndependent ==
    Simulated =>
        LET first == Compile(variant, rarity, profile, rng0)
        IN /\ particles[rarity] = first.particles
           /\ filters[rarity] = first.filters

\* the number of layers named name in the filter list fs
Layers(fs, name) ==
    Cardinality({k \in DOMAIN fs : fs[k].op = "color" /\ fs[k].out[1] = name})

\* the number of overlays of a layer named name in the filter list fs
Overlays(fs, name) ==
    Cardinality({k \in DOMAIN fs : fs[k].op = "overlay" /\ fs[k].top[1] = name})

\* the ray count of the settings p of rarity r, 0 without burst rays
BurstRayCount(v, r, p) ==
    IF v = "celebration" /\ "burst_rays" \in p.effects THEN RayCount(r) ELSE 0

\* C10: a compiled tier has particle_count particle layers and as many burst
\* ray layers as its ray count, none when burst rays are off.
C10_CountInvariant ==
    \A r \in Tiers :
        filters[r] # <<>> =>
            LET p == Profile(variant, r)
            IN /\ Len(particles[r]) = p.particle_count
               /\ Layers(filters[r], "p") = p.particle_count
               /\ Overlays(filters[r], "p") = p.particle_count
               /\ Layers(filters[r], "ray") = BurstRayCount(variant, r, p)
               /\ Overlays(filters[r], "ray") = BurstRayCount(variant, r, p)

C10_Witness ==
    /\ variant = "celebration" /\ BatchDone
    /\ \A r \in Tiers : filters[r] # <<>>
    /\ Layers(filters["common"], "ray") = 0
    /\ Layers(filters["uncommon"], "ray") = 32
    /\ Layers(filters["rare"], "p") = 100

\* the overlays of the filter list fs, in list order
OverlaysOf(fs) == SelectSeq(fs, LAMBDA f : f.op = "overlay")

\* the number of particles compiled into the filter list fs
ParticleLayers(fs) == Layers(fs, "p")

\* C11: the k-th overlay of a compiled graph lays its layer over the output
\* of the overlay before it (the background for the first); the layers are
\* the particles in generation order, then the burst rays in generation order.
C11_ZOrder ==
    \A r \in Tiers :
        filters[r] # <<>> =>
            LET os == OverlaysOf(filters[r])
                n == ParticleLayers(filters[r])
            IN \A k \in DOMAIN os :
                /\ os[k].base = IF k = 1 THEN <<"bg", 0>> ELSE os[k - 1].out
                /\ os[k].top = IF k <= n THEN <<"p", k - 1>> ELSE <<"ray", k - n - 1>>
                /\ os[k].out = IF k <= n THEN <<"tmp", k - 1>>
                               ELSE <<"ray_tmp", k - n - 1>>

C11_Witness ==
    /\ variant = "celebration" /\ filters["rare"] # <<>>
    /\ Len(OverlaysOf(filters["rare"])) = 148
    /\ OverlaysOf(filters["rare"])[101].base = <<"tmp", 99>>
    /\ OverlaysOf(filters["rare"])[148].base = <<"ray_tmp", 46>>

\* the positions of fs whose filter reads the label l
Consumers(fs, l) == {k \in DOMAIN fs : fs[k].base = l \/ fs[k].top = l}

\* C12: in the graph just compiled every label a filter declares is read by
\* exactly one later filter, except the label handed to -map, which no filter
\* reads; every label a filter reads is declared by an earlier filter.
C12_WellFormed ==
    (Simulated /\ rarity \in Tiers) =>
        LET fs == filters[rarity]
        IN /\ \A k \in DOMAIN fs :
                 IF fs[k].out = final_layer[rarity]
                 THEN Consumers(fs, fs[k].out) = {}
                 ELSE /\ Cardinality(Consumers(fs, fs[k].out)) = 1
                      /\ \A j \in Consumers(fs, fs[k].out) : j > k
           /\ \A k \in DOMAIN fs : \A l \in {fs[k].base, fs[k].top} \ {NoLabel} :
                 \E j \in 1..(k - 1) : fs[j].out = l
           /\ \A j, k \in DOMAIN fs : fs[j].out = fs[k].out => j = k
           /\ \E k \in DOMAIN fs : fs[k].out = final_layer[rarity]

C12_Witness ==
    /\ Simulated /\ variant = "celebration" /\ rarity = "uncommon"
    /\ final_layer["uncommon"] = <<"ray_tmp", 31>>
    /\ Len(filters["uncommon"]) = 185

ProfileResolved == pc \in {"simulate", "spawn", "encoding", "returned"}

\* C14: create_celebration_video resolves common to 30 particles without
\* effects, uncommon to 60 particles with burst rays (32 rays) and no
\* shockwave, rare to 100 particles with burst rays (48 rays) and shockwave.
C14_ProfileTable ==
    (variant = "celebration" /\ rarity \in Tiers /\ ProfileResolved) =>
        /\ rarity = "common" =>
              /\ profile.particle_count = 30 /\ profile.effects = {}
              /\ filters[rarity] # <<>> => Layers(filters[rarity], "ray") = 0
        /\ rarity = "uncommon" =>
              /\ profile.particle_count = 60 /\ profile.effects = {"burst_rays"}
              /\ filters[rarity] # <<>> => Layers(filters[rarity], "ray") = 32
        /\ rarity = "rare" =>
              /\ profile.particle_count = 100
              /\ profile.effects = {"burst_rays", "shockwave"}
              /\ filters[rarity] # <<>> => Layers(filters[rarity], "ray") = 48

C14_Witness ==
    /\ variant = "celebration" /\ rarity = "uncommon" /\ Simulated
    /\ profile.particle_count = 60 /\ Layers(filters["uncommon"], "ray") = 32

\* C15: every particle overlay and every burst ray overlay of a compiled
\* graph carries the opacity expression 1 - t/duration.
C15_OpacityFades ==
    \A r \in Tiers : \A k \in DOMAIN filters[r] :
        filters[r][k].op = "overlay" => filters[r][k].alpha = "1-t/duration"

\* the rarities whose encoder subprocess is alive
Alive == {r \in AllRarities : raw[r] \in EncoderStates}

\* C17: at most one encoder subprocess is alive; a batch run starts the
\* encoders in the order common, uncommon, rare, each only when the job of
\* every tier before it has returned.
C17_Sequential ==
    /\ Cardinality(Alive) <= 1
    /\ entry = "main" =>
          /\ Len(spawned) <= 3
          /\ spawned = SubSeq(<<"common", "uncommon", "rare">>, 1, Len(spawned))
    /\ \A i \in DOMAIN spawned : \A j \in 1..(i - 1) :
          success[spawned[j]] \in {"True", "False"}

C17_Witness ==
    /\ entry = "main" /\ pc = "encoding" /\ rarity = "rare"
    /\ spawned = <<"common", "uncommon", "rare">> /\ Alive = {"rare"}

\* C18: every run reaches its end; a job whose encoder was started gets a
\* return value, True or False, and a return value never changes.
C18_Terminates ==
    /\ <>(pc = "done")
    /\ \A r \in AllRarities : (raw[r] \in EncoderStates) ~> (success[r] \in {"True", "False"})
    /\ [][\A r \in AllRarities : success[r] # "none" => success'[r] = success[r]]_vars

C18_Witness ==
    /\ BatchDone /\ raw["common"] = "exit0" /\ raw["uncommon"] = "exit0"
    /\ raw["rare"] = "timeout" /\ success["rare"] = "False"

\* C19: in create_dramatic_celebration_video every particle ends inside the
\* canvas and starts within 100 units horizontally and 50 units vertically
\* of the centre (360, 426).
C19_WithinCanvas ==
    variant = "dramatic" =>
        \A r \in Tiers : \A k \in DOMAIN particles[r] :
            LET q == particles[r][k]
            IN /\ 0 <= q.end_x /\ q.end_x <= 720
               /\ 0 <= q.end_y /\ q.end_y <= 1280
               /\ 260 <= q.start_x /\ q.start_x <= 460
               /\ 376 <= q.start_y /\ q.start_y <= 476

\* a particle of rare whose end was cut off at the left and one at the right
C19_Witness ==
    /\ variant = "dramatic" /\ Len(particles["rare"]) = 150
    /\ \E k \in DOMAIN particles["rare"] :
          LET q == particles["rare"][k]
          IN q.end_x = 0 /\ q.start_x + Scale(Cos1000(q.angle), q.radius) < 0
    /\ \E k \in DOMAIN particles["rare"] :
          LET q == particles["rare"][k]
          IN q.end_x = 720 /\ q.start_x + Scale(Cos1000(q.angle), q.radius) > 720

\* C20: the graph compiled for rare has 100 + 48 overlays and is the graph
\* compiled from the same settings without 'shockwave' among the effects.
C20_ShockwaveInert ==
    (Simulated /\ variant = "celebration" /\ rarity = "rare") =>
        /\ "shockwave" \in profile.effects
        /\ Len(OverlaysOf(filters["rare"])) = 148
        /\ \E other \in {CelebrationCompile(variant, rarity,
                              [profile EXCEPT !.effects = @ \ {"shockwave"}], rng0)} :
              /\ filters["rare"] = other.filters
              /\ final_layer["rare"] = other.final_layer
              /\ particles["rare"] = other.particles

C20_Witness ==
    /\ Simulated /\ variant = "celebration" /\ rarity = "rare"
    /\ profile.effects = {"burst_rays", "shockwave"}
    /\ final_layer["rare"] = <<"ray_tmp", 47>>

\* the messages of the first n recipients, in list order
MessagesTo(n) ==
    [k \in 1..n |-> compose_email(build_recipients[k].email, build_recipients[k].name)]

\* C16: after a successful login send_emails() hands one message per
\* recipient to send_message, in list order, whatever sends fail: a failed
\* send is printed and the loop goes on; after an authentication error the
\* exception leaves the function and nothing is sent.
C16_EveryRecipientOnce ==
    /\ login = "ok" =>
          /\ mailPc \in {"loop", "closed"}
          /\ raised = "none"
          /\ attempts = MessagesTo(pos - 1)
          /\ sent + failed = Len(attempts)
          /\ (failed > 0 /\ lastPrint[1] # "Email sent to") =>
                lastPrint = <<"Failed to send email to",
                              build_recipients[pos - 1].name,
                              build_recipients[pos - 1].email>>
          /\ mailPc = "closed" => attempts = MessagesTo(Len(build_recipients))
    /\ login = "auth_error" =>
          /\ mailPc = "raised"
          /\ raised = "SMTPAuthenticationError"
          /\ lastPrint = <<"Failed to authenticate with Gmail.">>
          /\ attempts = <<>>

\* send_emails() returned after sends that failed and sends that succeeded
C16_Witness ==
    /\ login = "ok" /\ mailPc = "closed"
    /\ Len(attempts) = Len(build_recipients)
    /\ failed > 0 /\ sent > 0
    /\ lastPrint[1] = "Failed to send email to"

====
